---- MODULE Spec2Model ----
(***************************************************************************)
(* Velocity computation of pedpy (src/pedpy/methods/velocity_calculator.py) *)
(* and the windowed position query of TrajectoryData                        *)
(* (src/report/data/trajectory_data.py).                                    *)
(*                                                                          *)
(* A data frame is a sequence of rows; a row is a function from column      *)
(* names to values.  A floating point number is modelled exactly, as        *)
(*      num / den * sqrt(rad)                                               *)
(* in lowest terms, so that np.linalg.norm and the divisions of the code    *)
(* are computed, not approximated.  den = 0 encodes what IEEE division by   *)
(* zero yields: num = 1 is +inf, num = -1 is -inf, num = 0 is NaN.          *)
(***************************************************************************)
EXTENDS Integers, Sequences, FiniteSets, TLC

VARIABLES
    movement_data,                    \* caller's frame given to _compute_individual_speed
    traj_data,                        \* traj_data.data: rows ID, frame, points
    individual_velocity,              \* rows ID, frame, speed
    individual_voronoi_intersection,  \* rows ID, frame, voronoi_ma_intersection
    measurement_area,                 \* polygon (vertex sequence) of the measurement area
    frames_in_area,                   \* rows ID, frame_start, frame_end
    data,                             \* TrajectoryData._data: rows ID, frame, X, Y
    call,                             \* the call made: operation, scalar arguments, and
                                      \* whether it raised instead of returning
    result                            \* what the last call returned

vars == <<movement_data, traj_data, individual_velocity,
          individual_voronoi_intersection, measurement_area, frames_in_area,
          data, call, result>>

tables == <<movement_data, traj_data, individual_velocity,
            individual_voronoi_intersection, measurement_area, frames_in_area,
            data>>

(***************************************************************************)
(* Bounds of the model.                                                     *)
(***************************************************************************)
MaxFrame == 2        \* frames 0..MaxFrame
MaxRows == 2         \* rows (or populated keys) of an input table
MaxWindowSize == 2   \* window_size of a movement record, 0..MaxWindowSize

Peds == {1, 2}       \* the pedestrian IDs of the inputs
Frames == 0..MaxFrame
\* Each behaviour is one call of one function on the tables its caller built.
NoCall == [op |-> "none"]
None == <<>>         \* movement_direction = None

(***************************************************************************)
(* Exact arithmetic on num / den * sqrt(rad).                               *)
(***************************************************************************)
Abs(x) == IF x < 0 THEN -x ELSE x
Sign(x) == IF x < 0 THEN -1 ELSE IF x = 0 THEN 0 ELSE 1

RECURSIVE GCD(_, _)
GCD(a, b) == IF b = 0 THEN a ELSE GCD(b, a % b)

\* the largest k >= from with k*k dividing n, or best when there is none
RECURSIVE SquarePart(_, _, _)
SquarePart(n, from, best) ==
    IF from * from > n THEN best
    ELSE SquarePart(n, from + 1, IF n % (from * from) = 0 THEN from ELSE best)

IsFinite(a) == a.den # 0

\* n / d * sqrt(r), d > 0, in lowest terms
Normalize(n, d, r) ==
    IF n = 0 \/ r = 0 THEN [num |-> 0, den |-> 1, rad |-> 1]
    ELSE LET k == SquarePart(r, 1, 1)
             nn == n * k
             g == GCD(Abs(nn), d)
         IN  [num |-> nn \div g, den |-> d \div g, rad |-> r \div (k * k)]

Float(i) == [num |-> i, den |-> 1, rad |-> 1]
Rational(n, d) == Normalize(n, d, 1)
Sqrt(i) == Normalize(1, 1, i)

Mul(a, b) == Normalize(a.num * b.num, a.den * b.den, a.rad * b.rad)

\* IEEE division: x / 0 is +inf, -inf or NaN and raises nothing
Div(a, b) ==
    IF b.num = 0 THEN [num |-> Sign(a.num), den |-> 0, rad |-> 1]
    ELSE Normalize(Sign(b.num) * a.num * b.den,
                   a.den * Abs(b.num) * b.rad,
                   a.rad * b.rad)

\* sum of two numbers with the same radicand (or one of them zero)
Add(a, b) ==
    IF a.num = 0 THEN b
    ELSE IF b.num = 0 THEN a
    ELSE Normalize(a.num * b.den + b.num * a.den, a.den * b.den, a.rad)

SignOf(a) == Sign(a.num)

Sub(a, b) == Add(a, [b EXCEPT !.num = -b.num])

\* a <= b on rationals; a comparison with NaN is False
LessEq(a, b) == IsFinite(a) /\ IsFinite(b) /\ a.num * b.den <= b.num * a.den

(***************************************************************************)
(* Data frame helpers.                                                      *)
(***************************************************************************)
Range(s) == {s[i] : i \in DOMAIN s}

\* df[cols] = values: the columns are added to the row, or overwritten
SetCols(row, cols) == cols @@ row

\* df[columns]: a new frame holding only the named columns
Select(row, columns) == [c \in columns |-> row[c]]

RECURSIVE SumSeq(_)
SumSeq(s) == IF s = <<>> THEN Float(0) ELSE Add(s[1], SumSeq(Tail(s)))

\* the elements of a finite set of integers in increasing order
RECURSIVE SortedSeq(_)
SortedSeq(S) ==
    IF S = {} THEN <<>>
    ELSE LET m == CHOOSE x \in S : \A y \in S : x <= y
         IN  <<m>> \o SortedSeq(S \ {m})

(***************************************************************************)
(* _compute_individual_speed                                                *)
(***************************************************************************)
\* the inputs the model draws
StartPoints == {<<1, 1>>}
EndPoints == {<<1, 1>>, <<2, 1>>, <<0, 2>>}
FrameRates == {1, 2}
Directions == {<<1, 0>>, <<0, 2>>, <<-1, 1>>}

Dot(u, v) == u[1] * v[1] + u[2] * v[2]

\* time_interval = movement_data.window_size / frame_rate
TimeInterval(row, frame_rate) == Div(Float(row.window_size), Float(frame_rate))

\* shapely.get_coordinates(end) - shapely.get_coordinates(start)
Displacement(row) == <<row.end[1] - row.start[1], row.end[2] - row.start[2]>>

\* np.linalg.norm(movement_data[["d_x", "d_y"]], axis=1) / time_interval
UnprojectedSpeed(d, time_interval) == Div(Sqrt(Dot(d, d)), time_interval)

\* the projection is computed but d_x, d_y are left as they were
ProjectionNotStored(d, movement_direction) == d

\* np.dot(d, movement_direction)[:, None] * movement_direction * norm_movement_direction
Projection(d, movement_direction) ==
    LET norm_movement_direction == Dot(movement_direction, movement_direction)
    IN  <<Dot(d, movement_direction) * movement_direction[1] * norm_movement_direction,
          Dot(d, movement_direction) * movement_direction[2] * norm_movement_direction>>

\* np.dot(d, movement_direction) / np.linalg.norm(movement_direction) / time_interval
ProjectedSpeed(d, movement_direction, time_interval) ==
    Div(Div(Float(Dot(d, movement_direction)),
            Sqrt(Dot(movement_direction, movement_direction))),
        time_interval)

\* movement_data["d_x"].values / time_interval, movement_data["d_y"].values / time_interval
Components(d, time_interval) ==
    <<Div(Float(d[1]), time_interval), Div(Float(d[2]), time_interval)>>

\* one row of movement_data as the function leaves it, statement by statement
SpeedRow(row, frame_rate, movement_direction, x_y_components) ==
    LET time_interval == TimeInterval(row, frame_rate)
        d0 == Displacement(row)
        r1 == SetCols(row, [d_x |-> d0[1], d_y |-> d0[2]])
        r2 == SetCols(r1, [speed |-> UnprojectedSpeed(<<r1.d_x, r1.d_y>>, time_interval)])
        p  == Projection(<<r2.d_x, r2.d_y>>, movement_direction)
        r3 == SetCols(r2, [d_x |-> p[1], d_y |-> p[2]])
        r4 == SetCols(r3, [speed |-> ProjectedSpeed(<<r3.d_x, r3.d_y>>,
                                                     movement_direction, time_interval)])
        r5 == IF movement_direction # None THEN r4 ELSE r2
        v  == Components(<<r5.d_x, r5.d_y>>, time_interval)
    IN  IF x_y_components THEN SetCols(r5, [v_x |-> v[1], v_y |-> v[2]]) ELSE r5

SpeedColumns(x_y_components) ==
    IF x_y_components THEN {"ID", "frame", "speed", "v_x", "v_y"}
    ELSE {"ID", "frame", "speed"}

\* compute_individual_velocity hands a freshly built movement frame to
\* _compute_individual_speed, once: the frame is mutated and a selection returned
ComputeIndividualSpeed(frame_rate, movement_direction, x_y_components) ==
    /\ call = NoCall
    /\ movement_data # <<>>
    /\ movement_data' = [i \in DOMAIN movement_data |->
            SpeedRow(movement_data[i], frame_rate, movement_direction, x_y_components)]
    /\ result' = [i \in DOMAIN movement_data |->
            Select(movement_data'[i], SpeedColumns(x_y_components))]
    /\ call' = [op |-> "_compute_individual_speed", frame_rate |-> frame_rate,
                movement_direction |-> movement_direction,
                x_y_components |-> x_y_components, raised |-> FALSE]
    /\ UNCHANGED <<traj_data, individual_velocity, individual_voronoi_intersection,
                   measurement_area, frames_in_area, data>>

MovementBodies == [start : StartPoints, end : EndPoints, window_size : 0..MaxWindowSize]

\* the movement records of one pedestrian over consecutive frames, as
\* _compute_individual_movement lists them
MovementTables ==
    UNION {{[i \in 1..n |-> [ID |-> id, frame |-> i - 1, start |-> b[i].start,
                            end |-> b[i].end, window_size |-> b[i].window_size]] :
             b \in [1..n -> MovementBodies], id \in Peds} : n \in 1..MaxRows}

(***************************************************************************)
(* Geometry: shapely on convex polygons given counter-clockwise.            *)
(***************************************************************************)
Cross(a, b, p) == (b[1] - a[1]) * (p[2] - a[2]) - (b[2] - a[2]) * (p[1] - a[1])

Next1(polygon, i) == IF i = Len(polygon) THEN 1 ELSE i + 1

\* shapely.covered_by in place of shapely.within: the boundary counts as inside
CoveredBy(point, polygon) ==
    \A i \in DOMAIN polygon : Cross(polygon[i], polygon[Next1(polygon, i)], point) >= 0

\* shapely.within(point, polygon): the point lies in the interior; a point of the
\* boundary is not within
Within(point, polygon) ==
    \A i \in DOMAIN polygon : Cross(polygon[i], polygon[Next1(polygon, i)], point) > 0

RECURSIVE Shoelace(_, _)
Shoelace(polygon, i) ==
    IF i > Len(polygon) THEN 0
    ELSE polygon[i][1] * polygon[Next1(polygon, i)][2]
         - polygon[Next1(polygon, i)][1] * polygon[i][2]
         + Shoelace(polygon, i + 1)

\* shapely.area(polygon)
Area(polygon) == Rational(Abs(Shoelace(polygon, 1)), 2)

\* measurement_area.area
MeasurementAreaArea(ma) == Area(ma)

(***************************************************************************)
(* pandas: merge, groupby, reindex.                                         *)
(***************************************************************************)
SameKey(r, q) == r.ID = q.ID /\ r.frame = q.frame

\* left.merge(right, on=[ID, frame]): an inner join, in the order of the left rows;
\* a row without a partner is dropped
RECURSIVE Merge(_, _)
Merge(left, right) ==
    IF left = <<>> THEN <<>>
    ELSE LET m == SortedSeq({j \in DOMAIN right : SameKey(left[1], right[j])})
         IN  [k \in DOMAIN m |-> right[m[k]] @@ left[1]] \o Merge(Tail(left), right)

FrameSet(df) == {df[i].frame : i \in DOMAIN df}
RowsOfFrame(df, f) == SelectSeq(df, LAMBDA r : r.frame = f)
SpeedsOf(df) == [i \in DOMAIN df |-> df[i].speed]

\* df.groupby(by=frame).speed.mean(): one entry per frame that has rows, by frame
GroupMean(df) ==
    LET fs == SortedSeq(FrameSet(df))
    IN  [k \in DOMAIN fs |->
            LET rows == RowsOfFrame(df, fs[k])
            IN  [frame |-> fs[k], speed |-> Div(SumSeq(SpeedsOf(rows)), Float(Len(rows)))]]

\* df.groupby(by=frame).speed.sum()
GroupSum(df) ==
    LET fs == SortedSeq(FrameSet(df))
    IN  [k \in DOMAIN fs |->
            [frame |-> fs[k], speed |-> SumSeq(SpeedsOf(RowsOfFrame(df, fs[k])))]]

MinFrame(df) == CHOOSE f \in FrameSet(df) : \A g \in FrameSet(df) : f <= g
MaxFrameOf(df) == CHOOSE f \in FrameSet(df) : \A g \in FrameSet(df) : f >= g

\* list(range(traj_data.data.frame.min(), traj_data.data.frame.max() + 1))
FrameRange(df) == [k \in 1..(MaxFrameOf(df) - MinFrame(df) + 1) |-> MinFrame(df) + k - 1]

\* the frames without an entry are left out instead of filled
ReindexWithoutFill(series, index, fill_value) ==
    SelectSeq(series, LAMBDA e : \E k \in DOMAIN index : index[k] = e.frame)

\* series.reindex(index, fill_value=0.0)
Reindex(series, index, fill_value) ==
    [k \in DOMAIN index |->
        LET hit == {j \in DOMAIN series : series[j].frame = index[k]}
        IN  [frame |-> index[k],
             speed |-> IF hit = {} THEN fill_value
                       ELSE series[CHOOSE j \in hit : TRUE].speed]]

(***************************************************************************)
(* compute_mean_velocity_per_frame                                          *)
(***************************************************************************)
MeanVelocityPerFrame(traj, velocity, ma) ==
    LET combined == Merge(traj, velocity)
        inside == SelectSeq(combined, LAMBDA r : Within(r.points, ma))
        df_mean == GroupMean(inside)
    IN  Reindex(df_mean, FrameRange(traj), Float(0))

ComputeMeanVelocityPerFrame ==
    /\ call = NoCall
    /\ traj_data # <<>>
    /\ result' = MeanVelocityPerFrame(traj_data, individual_velocity, measurement_area)
    /\ call' = [op |-> "compute_mean_velocity_per_frame", raised |-> FALSE]
    /\ UNCHANGED tables

(***************************************************************************)
(* compute_voronoi_velocity                                                 *)
(***************************************************************************)
\* the division by the area of the measurement area is left out
WeightedSpeedNotNormalised(row, ma) == Mul(Area(row.voronoi_ma_intersection), row.speed)

\* shapely.area(df_voronoi.voronoi_ma_intersection) * df_voronoi.speed / measurement_area.area
WeightedSpeed(row, ma) ==
    Div(Mul(Area(row.voronoi_ma_intersection), row.speed), MeasurementAreaArea(ma))

VoronoiVelocity(traj, velocity, intersection, ma) ==
    LET merged == Merge(intersection, velocity)
        df_voronoi == [i \in DOMAIN merged |->
                          SetCols(merged[i], [speed |-> WeightedSpeed(merged[i], ma)])]
        df_voronoi_speed == GroupSum(df_voronoi)
    IN  Reindex(df_voronoi_speed, FrameRange(traj), Float(0))

ComputeVoronoiVelocity ==
    /\ call = NoCall
    /\ traj_data # <<>>
    /\ result' = VoronoiVelocity(traj_data, individual_velocity,
                                 individual_voronoi_intersection, measurement_area)
    /\ call' = [op |-> "compute_voronoi_velocity", raised |-> FALSE]
    /\ UNCHANGED tables

(***************************************************************************)
(* The inputs of the two aggregations.                                      *)
(***************************************************************************)
Square == <<<<0, 0>>, <<2, 0>>, <<2, 2>>, <<0, 2>>>>
Triangle == <<<<0, 0>>, <<4, 0>>, <<0, 4>>>>
MeasurementAreas == {Square, Triangle}
\* inside both areas; a vertex of the square and on an edge of the triangle; outside
Positions == {<<1, 1>>, <<2, 2>>, <<3, 3>>}
SpeedValues == {-1, 2}
Cells == {<<<<0, 0>>, <<1, 0>>, <<1, 1>>, <<0, 1>>>>,
          <<<<0, 0>>, <<2, 0>>, <<2, 1>>, <<0, 1>>>>}

\* every (ID, frame), by ID and then by frame
KeySeq ==
    [i \in 1..(Cardinality(Peds) * (MaxFrame + 1)) |->
        <<((i - 1) \div (MaxFrame + 1)) + 1, (i - 1) % (MaxFrame + 1)>>]
KeySets == {S \in SUBSET Range(KeySeq) : 1 <= Cardinality(S) /\ Cardinality(S) <= MaxRows}

\* What is recorded of one (ID, frame); <<>> stands for no row in that table.
\* Pedestrians at varied positions, each with its velocity:
InsideOptions ==
    [points : Positions, speed : {<<v>> : v \in SpeedValues}, cell : {<<>>}]
\* pedestrians with a velocity and a Voronoi cell intersection:
WeightOptions ==
    [points : {<<1, 1>>}, speed : {<<v>> : v \in SpeedValues}, cell : Cells]
\* tables that do not share their keys:
JoinOptions ==
    {o \in [points : {<<1, 1>>, <<>>}, speed : {<<2>>, <<>>},
            cell : {<<<<0, 0>>, <<1, 0>>, <<1, 1>>, <<0, 1>>>>, <<>>}] :
        o.points # <<>> \/ o.speed # <<>> \/ o.cell # <<>>}

TrajRows(a) ==
    LET ks == SelectSeq(KeySeq, LAMBDA k : k \in DOMAIN a /\ a[k].points # <<>>)
    IN  [i \in DOMAIN ks |-> [ID |-> ks[i][1], frame |-> ks[i][2], points |-> a[ks[i]].points]]
VelocityRows(a) ==
    LET ks == SelectSeq(KeySeq, LAMBDA k : k \in DOMAIN a /\ a[k].speed # <<>>)
    IN  [i \in DOMAIN ks |->
            [ID |-> ks[i][1], frame |-> ks[i][2], speed |-> Float(a[ks[i]].speed[1])]]
IntersectionRows(a) ==
    LET ks == SelectSeq(KeySeq, LAMBDA k : k \in DOMAIN a /\ a[k].cell # <<>>)
    IN  [i \in DOMAIN ks |->
            [ID |-> ks[i][1], frame |-> ks[i][2], voronoi_ma_intersection |-> a[ks[i]].cell]]

InitAggregate ==
    /\ \E S \in KeySets : \E a \in [S -> InsideOptions] \cup [S -> WeightOptions] \cup [S -> JoinOptions] :
          /\ traj_data = TrajRows(a)
          /\ individual_velocity = VelocityRows(a)
          /\ individual_voronoi_intersection = IntersectionRows(a)
    /\ traj_data # <<>>
    /\ measurement_area \in MeasurementAreas
    /\ movement_data = <<>>
    /\ frames_in_area = <<>>
    /\ data = <<>>
    /\ call = NoCall
    /\ result = <<>>

(***************************************************************************)
(* compute_passing_speed                                                    *)
(***************************************************************************)
PassingFrames == {100, 150, 152}
PassingFrameRates == {1, 25}
Distances == {1, 2}

\* np.abs is left out: the speed takes the sign of frame_end - frame_start
PassingSpeedSigned(row, frame_rate, distance) ==
    Div(Mul(Float(frame_rate), Float(distance)), Float(row.frame_end - row.frame_start))

\* frame_rate * distance / np.abs(frame_end - frame_start)
PassingSpeed(row, frame_rate, distance) ==
    Div(Mul(Float(frame_rate), Float(distance)),
        Float(Abs(row.frame_end - row.frame_start)))

\* pd.DataFrame(frames_in_area.ID, columns=[ID, speed]), then the speed column:
\* a new frame with the rows of frames_in_area
PassingSpeedFrame(frames, frame_rate, distance) ==
    [i \in DOMAIN frames |->
        [ID |-> frames[i].ID, speed |-> PassingSpeed(frames[i], frame_rate, distance)]]

ComputePassingSpeed(frame_rate, distance) ==
    /\ call = NoCall
    /\ result' = PassingSpeedFrame(frames_in_area, frame_rate, distance)
    /\ call' = [op |-> "compute_passing_speed", frame_rate |-> frame_rate,
                distance |-> distance, raised |-> FALSE]
    /\ UNCHANGED tables

PassingRows == [ID : Peds, frame_start : PassingFrames, frame_end : PassingFrames]

InitPassing ==
    /\ frames_in_area \in UNION {[1..n -> PassingRows] : n \in 0..MaxRows}
    /\ movement_data = <<>>
    /\ traj_data = <<>>
    /\ individual_velocity = <<>>
    /\ individual_voronoi_intersection = <<>>
    /\ measurement_area = <<>>
    /\ data = <<>>
    /\ call = NoCall
    /\ result = <<>>

NextPassing ==
    \E frame_rate \in PassingFrameRates, distance \in Distances :
        ComputePassingSpeed(frame_rate, distance)

SpecPassing == InitPassing /\ [][NextPassing]_vars

(***************************************************************************)
(* TrajectoryData.get_pedestrian_positions                                  *)
(***************************************************************************)
MaxTrajRows == 4     \* rows of TrajectoryData._data
MaxWindow == 4       \* window argument, 0..MaxWindow

\* df.sort_values(by=["frame"]); the frames of one pedestrian are unique
RECURSIVE SortByFrame(_)
SortByFrame(df) ==
    IF df = <<>> THEN <<>>
    ELSE LET m == CHOOSE i \in DOMAIN df : \A j \in DOMAIN df : df[i].frame <= df[j].frame
         IN  <<df[m]>> \o SortByFrame(SubSeq(df, 1, m - 1) \o SubSeq(df, m + 1, Len(df)))

\* pedestrian_positions["frame"].min(): NaN for a pedestrian without rows
FrameMin(df) ==
    IF df = <<>> THEN [num |-> 0, den |-> 0, rad |-> 1] ELSE Float(MinFrame(df))
FrameMax(df) ==
    IF df = <<>> THEN [num |-> 0, den |-> 0, rad |-> 1] ELSE Float(MaxFrameOf(df))

\* window //= 2: the half window is rounded down
HalfWindowFloored(window) == Float(window \div 2)

\* window /= 2
HalfWindow(window) == Rational(window, 2)

\* frame - window if pedestrian_positions["frame"].min() <= frame - window else frame
WindowMinFrame(pedestrian_positions, frame, half) ==
    IF LessEq(FrameMin(pedestrian_positions), Sub(Float(frame), half))
    THEN Sub(Float(frame), half) ELSE Float(frame)

\* frame + window if pedestrian_positions["frame"].max() >= frame + window else frame
WindowMaxFrame(pedestrian_positions, frame, half) ==
    IF LessEq(Add(Float(frame), half), FrameMax(pedestrian_positions))
    THEN Add(Float(frame), half) ELSE Float(frame)

GetPedestrianPositions(df, frame, pedestrian_id, window) ==
    LET half == HalfWindow(window)
        pedestrian_positions == SortByFrame(SelectSeq(df, LAMBDA r : r.ID = pedestrian_id))
        min_frame == WindowMinFrame(pedestrian_positions, frame, half)
        max_frame == WindowMaxFrame(pedestrian_positions, frame, half)
        pedestrian_positions_frame_window ==
            SortByFrame(SelectSeq(pedestrian_positions,
                LAMBDA r : LessEq(min_frame, Float(r.frame))
                           /\ LessEq(Float(r.frame), max_frame)))
    IN  [i \in DOMAIN pedestrian_positions_frame_window |->
            <<pedestrian_positions_frame_window[i].X,
              pedestrian_positions_frame_window[i].Y>>]

CallGetPedestrianPositions(frame, pedestrian_id, window) ==
    /\ call = NoCall
    /\ result' = GetPedestrianPositions(data, frame, pedestrian_id, window)
    /\ call' = [op |-> "get_pedestrian_positions", frame |-> frame,
                pedestrian_id |-> pedestrian_id, window |-> window, raised |-> FALSE]
    /\ UNCHANGED tables

\* the recorded position of a pedestrian in a frame: each walks along x, in its lane
PositionX(id, frame) == 10 * id + frame
PositionY(id, frame) == id

Reverse(s) == [i \in DOMAIN s |-> s[Len(s) + 1 - i]]

\* the rows of a file, listed by ID and frame or the other way round
DataTables ==
    LET rows(S) ==
            LET ks == SelectSeq(KeySeq, LAMBDA k : k \in S)
            IN  [i \in DOMAIN ks |->
                    [ID |-> ks[i][1], frame |-> ks[i][2],
                     X |-> PositionX(ks[i][1], ks[i][2]),
                     Y |-> PositionY(ks[i][1], ks[i][2])]]
    IN  UNION {{rows(S), Reverse(rows(S))} :
               S \in {T \in SUBSET Range(KeySeq) : Cardinality(T) <= MaxTrajRows}}

InitTraj ==
    /\ data \in DataTables
    /\ movement_data = <<>>
    /\ traj_data = <<>>
    /\ individual_velocity = <<>>
    /\ individual_voronoi_intersection = <<>>
    /\ measurement_area = <<>>
    /\ frames_in_area = <<>>
    /\ call = NoCall
    /\ result = <<>>

NextTraj ==
    \E frame \in Frames, pedestrian_id \in Peds, window \in 0..MaxWindow :
        CallGetPedestrianPositions(frame, pedestrian_id, window)

SpecTraj == InitTraj /\ [][NextTraj]_vars

InitSpeed ==
    /\ movement_data \in MovementTables
    /\ traj_data = <<>>
    /\ individual_velocity = <<>>
    /\ individual_voronoi_intersection = <<>>
    /\ measurement_area = <<>>
    /\ frames_in_area = <<>>
    /\ data = <<>>
    /\ call = NoCall
    /\ result = <<>>

NextAggregate == ComputeMeanVelocityPerFrame \/ ComputeVoronoiVelocity

SpecAggregate == InitAggregate /\ [][NextAggregate]_vars

NextSpeed ==
    \E frame_rate \in FrameRates, movement_direction \in Directions \cup {None},
       x_y_components \in BOOLEAN :
        ComputeIndividualSpeed(frame_rate, movement_direction, x_y_components)

SpecSpeed == InitSpeed /\ [][NextSpeed]_vars

(***************************************************************************)
(* Properties of _compute_individual_speed, under SpecSpeed.                *)
(***************************************************************************)
SpeedCalled == call.op = "_compute_individual_speed"
RawDisplacement(i) ==
    <<movement_data[i].end[1] - movement_data[i].start[1],
      movement_data[i].end[2] - movement_data[i].start[2]>>

\* C1: with a movement direction d (non-zero, of any length) and window_size > 0,
\* the returned speed is dot(end - start, d) / |d| / time_interval, with
\* time_interval = window_size / frame_rate; its sign is the sign of dot(end - start, d).
C1_SpeedIsScalarProjection ==
    (SpeedCalled /\ call.movement_direction # None) =>
        \A i \in DOMAIN result :
            movement_data[i].window_size > 0 =>
                LET d == call.movement_direction
                    dot == Dot(RawDisplacement(i), d)
                IN  /\ result[i].speed =
                          Div(Div(Float(dot), Sqrt(Dot(d, d))),
                              Rational(movement_data[i].window_size, call.frame_rate))
                    /\ SignOf(result[i].speed) = Sign(dot)

C7_DegenerateWindowRaises ==
    (SpeedCalled /\ \E i \in DOMAIN movement_data : movement_data[i].window_size = 0) =>
        /\ call.raised
        /\ \A i \in DOMAIN result : IsFinite(result[i].speed)

\* C9: no call changes a table it is given: the columns and values of every input
\* table are the same after the call as before.
C9_InputsNotMutated == [][tables' = tables]_vars

(***************************************************************************)
(* Properties of the two aggregations, under SpecAggregate.                 *)
(***************************************************************************)
MeanCalled == call.op = "compute_mean_velocity_per_frame"
VoronoiCalled == call.op = "compute_voronoi_velocity"

\* position of a point relative to a convex counter-clockwise polygon
EdgeSide(polygon, i, p) ==
    LET a == polygon[i]
        b == polygon[(i % Len(polygon)) + 1]
    IN  (b[1] - a[1]) * (p[2] - a[2]) - (b[2] - a[2]) * (p[1] - a[1])
StrictlyInside(p, polygon) == \A i \in DOMAIN polygon : EdgeSide(polygon, i, p) > 0
InsideOrOnBoundary(p, polygon) == \A i \in DOMAIN polygon : EdgeSide(polygon, i, p) >= 0

\* the (trajectory row, velocity row) pairs of frame f whose pedestrian qualifies
InclusivePairs(f) ==
    {q \in (DOMAIN traj_data) \X (DOMAIN individual_velocity) :
        /\ SameKey(traj_data[q[1]], individual_velocity[q[2]])
        /\ traj_data[q[1]].frame = f
        /\ InsideOrOnBoundary(traj_data[q[1]].points, measurement_area)}
StrictPairs(f) ==
    {q \in InclusivePairs(f) : StrictlyInside(traj_data[q[1]].points, measurement_area)}

\* the (intersection row, velocity row) pairs of frame f
VoronoiPairs(f) ==
    {q \in (DOMAIN individual_voronoi_intersection) \X (DOMAIN individual_velocity) :
        /\ SameKey(individual_voronoi_intersection[q[1]], individual_velocity[q[2]])
        /\ individual_velocity[q[2]].frame = f}

RECURSIVE SumOfSpeeds(_)
SumOfSpeeds(Q) ==
    IF Q = {} THEN Float(0)
    ELSE LET q == CHOOSE x \in Q : TRUE
         IN  Add(individual_velocity[q[2]].speed, SumOfSpeeds(Q \ {q}))

RECURSIVE SumOfWeightedSpeeds(_, _, _)
SumOfWeightedSpeeds(Q, intersection, ma) ==
    IF Q = {} THEN Float(0)
    ELSE LET q == CHOOSE x \in Q : TRUE
         IN  Add(Mul(Div(Area(intersection[q[1]].voronoi_ma_intersection), Area(ma)),
                     individual_velocity[q[2]].speed),
                 SumOfWeightedSpeeds(Q \ {q}, intersection, ma))

StretchPolygon(c, polygon) == [i \in DOMAIN polygon |-> <<c * polygon[i][1], polygon[i][2]>>]
StretchedIntersections(c) ==
    [i \in DOMAIN individual_voronoi_intersection |->
        [individual_voronoi_intersection[i] EXCEPT
            !.voronoi_ma_intersection = StretchPolygon(c, @)]]
AreaFactors == {2, 3}

\* C4: the Voronoi velocity of a frame is the sum, over the pedestrians with a
\* velocity row and an intersection row in that frame, of
\* (intersection area / measurement area) * speed; multiplying the area of the
\* measurement area and of every intersection by the same factor leaves it unchanged.
C4_VoronoiIsAreaWeightedSum ==
    VoronoiCalled =>
        /\ \A k \in DOMAIN result :
              result[k].speed =
                  SumOfWeightedSpeeds(VoronoiPairs(result[k].frame),
                                      individual_voronoi_intersection, measurement_area)
        /\ \A c \in AreaFactors :
              /\ Area(StretchPolygon(c, measurement_area)) = Mul(Float(c), Area(measurement_area))
              /\ VoronoiVelocity(traj_data, individual_velocity, StretchedIntersections(c),
                                 StretchPolygon(c, measurement_area)) = result

\* a frame with two weighted pedestrians whose sum is not zero
C4_Witness ==
    /\ VoronoiCalled
    /\ \E k \in DOMAIN result :
          /\ Cardinality(VoronoiPairs(result[k].frame)) >= 2
          /\ result[k].speed # Float(0)
          /\ result[k].speed.den > 1

\* whether some pedestrian qualifies in frame f for the aggregation called
Qualifies(f) ==
    IF MeanCalled THEN StrictPairs(f) # {} ELSE VoronoiPairs(f) # {}

\* C5: the series of either aggregation is indexed by min_frame, min_frame + 1, ...,
\* max_frame of the trajectory data, each once and in increasing order, and a frame
\* in which no pedestrian qualifies has the value 0.0.
C5_DenseFrameIndex ==
    (MeanCalled \/ VoronoiCalled) =>
        LET lo == CHOOSE f \in FrameSet(traj_data) : \A g \in FrameSet(traj_data) : f <= g
            hi == CHOOSE f \in FrameSet(traj_data) : \A g \in FrameSet(traj_data) : f >= g
        IN  /\ Len(result) = hi - lo + 1
            /\ \A k \in DOMAIN result :
                  /\ result[k].frame = lo + k - 1
                  /\ ~Qualifies(result[k].frame) => result[k].speed = Float(0)

\* a frame without a qualifying pedestrian between two frames with a non-zero value
C5_Witness ==
    /\ MeanCalled \/ VoronoiCalled
    /\ Len(result) = 3
    /\ result[1].speed # Float(0)
    /\ ~Qualifies(result[2].frame) /\ result[2].speed = Float(0)
    /\ result[3].speed # Float(0)

\* the (ID, frame) keys of a table
KeysOf(df) == {<<df[i].ID, df[i].frame>> : i \in DOMAIN df}

\* C8: when the joined tables do not share their (ID, frame) keys the call fails
\* with a missing-join-key error; no aggregate is returned.
C8_MismatchedJoinRaises ==
    /\ (VoronoiCalled /\ KeysOf(individual_voronoi_intersection) # KeysOf(individual_velocity))
          => call.raised
    /\ (MeanCalled /\ KeysOf(traj_data) # KeysOf(individual_velocity))
          => call.raised

(***************************************************************************)
(* Properties of compute_passing_speed, under SpecPassing.                  *)
(***************************************************************************)
PassingCalled == call.op = "compute_passing_speed"
Swapped(frames) ==
    [i \in DOMAIN frames |->
        [frames[i] EXCEPT !.frame_start = frames[i].frame_end,
                          !.frame_end = frames[i].frame_start]]

\* C6: the result has one row per row of frames_in_area, with that row's ID and
\* speed = frame_rate * distance / |frame_end - frame_start| (frame_rate 25,
\* distance 2, frames 100 and 150 give 1); swapping frame_start and frame_end
\* changes nothing, and no row is aggregated or dropped.
C6_PassingSpeedPerRow ==
    PassingCalled =>
        /\ Len(result) = Len(frames_in_area)
        /\ \A i \in DOMAIN result :
              LET span == frames_in_area[i].frame_end - frames_in_area[i].frame_start
              IN  /\ DOMAIN result[i] = {"ID", "speed"}
                  /\ result[i].ID = frames_in_area[i].ID
                  /\ span # 0 =>
                        /\ result[i].speed.num * result[i].speed.den > 0
                        /\ result[i].speed.rad = 1
                        /\ result[i].speed.num * (IF span < 0 THEN -span ELSE span)
                              = call.frame_rate * call.distance * result[i].speed.den
                  /\ (call.frame_rate = 25 /\ call.distance = 2
                      /\ frames_in_area[i].frame_start = 100
                      /\ frames_in_area[i].frame_end = 150) => result[i].speed = Float(1)
        /\ PassingSpeedFrame(Swapped(frames_in_area), call.frame_rate, call.distance) = result

\* the literal example, and a row that leaves before it enters
C6_Witness ==
    /\ PassingCalled /\ call.frame_rate = 25 /\ call.distance = 2
    /\ Len(result) = 2
    /\ frames_in_area[1].frame_start = 100 /\ frames_in_area[1].frame_end = 150
    /\ result[1].speed = Float(1)
    /\ frames_in_area[2].frame_start = 152 /\ frames_in_area[2].frame_end = 150
    /\ result[2].speed = Float(25)

(***************************************************************************)
(* Properties of get_pedestrian_positions, under SpecTraj.                  *)
(***************************************************************************)
PositionsCalled == call.op = "get_pedestrian_positions"
RecordedFrames(id) == {data[i].frame : i \in {j \in DOMAIN data : data[j].ID = id}}
PositionIn(id, f) ==
    LET i == CHOOSE j \in DOMAIN data : data[j].ID = id /\ data[j].frame = f
    IN  <<data[i].X, data[i].Y>>

\* twice the bounds of the frame window, so that window / 2 stays an integer
TwiceWindowMin(id, frame, window) ==
    IF \E f \in RecordedFrames(id) : 2 * f <= 2 * frame - window
    THEN 2 * frame - window ELSE 2 * frame
TwiceWindowMax(id, frame, window) ==
    IF \E f \in RecordedFrames(id) : 2 * f >= 2 * frame + window
    THEN 2 * frame + window ELSE 2 * frame
FramesInWindow(id, frame, window) ==
    {f \in RecordedFrames(id) :
        TwiceWindowMin(id, frame, window) <= 2 * f /\ 2 * f <= TwiceWindowMax(id, frame, window)}

\* C10: get_pedestrian_positions returns, by increasing frame, all and only the
\* positions of the pedestrian recorded in [min_frame, max_frame], where min_frame
\* is frame - window/2 if the first recorded frame is <= frame - window/2 and
\* frame otherwise, and max_frame is frame + window/2 if the last recorded frame is
\* >= frame + window/2 and frame otherwise; the position at the reference frame is
\* included when it is recorded.
C10_PositionsInFrameWindow ==
    PositionsCalled =>
        LET id == call.pedestrian_id
            fs == SortedSeq(FramesInWindow(id, call.frame, call.window))
        IN  /\ result = [i \in DOMAIN fs |-> PositionIn(id, fs[i])]
            /\ call.frame \in RecordedFrames(id) =>
                  \E i \in DOMAIN result : result[i] = PositionIn(id, call.frame)

\* an odd window on a file listed backwards and holding another pedestrian: the lower
\* bound is frame - 1.5, the upper side falls back to the reference frame
C10_Witness ==
    /\ PositionsCalled /\ call.window = 3 /\ call.frame = 2 /\ call.pedestrian_id = 1
    /\ Len(data) >= 2 /\ data[1].frame > data[Len(data)].frame
    /\ RecordedFrames(1) = {0, 1, 2}
    /\ RecordedFrames(2) # {}
    /\ result = <<PositionIn(1, 1), PositionIn(1, 2)>>

====
